---- MODULE Spec2Model ----
(***************************************************************************)
(* The PDF-to-speech Cloud Function: processPDFToSpeechHandler             *)
(* (function.go), storage.DownloadFileToTemp (internal/storage),           *)
(* pdfprocessor.ExtractTextFromPDFFilePath and tts.SynthesizeLongAudio.    *)
(*                                                                         *)
(* Go strings are modelled as sequences of one-character strings, so that  *)
(* HasSuffix, HasPrefix, ToLower, filepath.Base, filepath.Ext, TrimSuffix  *)
(* and TrimSpace are computed character by character as the library does.  *)
(***************************************************************************)
EXTENDS Integers, Sequences, FiniteSets, TLC

\* ------------------------------------------------------------------ bounds
\* Most not-done answers the backend gives to one operation.
MaxNotDone == 2
\* Most pages of a downloaded document.
MaxPages == 2
\* Size of the pool the random part of a temp-file name is drawn from.
MaxTempIds == 2

\* Invocation slots of the function instance.
Procs == {1, 2}

\* ------------------------------------------------------- string primitives
UpperCase == <<"A","B","C","D","E","F","G","H","I","J","K","L","M",
               "N","O","P","Q","R","S","T","U","V","W","X","Y","Z">>
LowerCase == <<"a","b","c","d","e","f","g","h","i","j","k","l","m",
               "n","o","p","q","r","s","t","u","v","w","x","y","z">>

\* unicode.ToLower on one character.
ToLowerChar(c) ==
  IF \E i \in 1..Len(UpperCase) : UpperCase[i] = c
  THEN LowerCase[CHOOSE i \in 1..Len(UpperCase) : UpperCase[i] = c]
  ELSE c

\* strings.ToLower
ToLower(s) == [i \in 1..Len(s) |-> ToLowerChar(s[i])]

\* strings.HasSuffix
HasSuffix(s, suffix) ==
  /\ Len(s) >= Len(suffix)
  /\ SubSeq(s, Len(s) - Len(suffix) + 1, Len(s)) = suffix

\* strings.HasPrefix
HasPrefix(s, prefix) ==
  /\ Len(s) >= Len(prefix)
  /\ SubSeq(s, 1, Len(prefix)) = prefix

\* strings.TrimSuffix
TrimSuffix(s, suffix) ==
  IF HasSuffix(s, suffix) THEN SubSeq(s, 1, Len(s) - Len(suffix)) ELSE s

\* os.IsPathSeparator on the function's Linux runtime.
IsPathSeparator(c) == c = "/"

\* Index of the last path separator of s, 0 when there is none.
LastSeparator(s) ==
  IF \E i \in 1..Len(s) : IsPathSeparator(s[i])
  THEN CHOOSE i \in 1..Len(s) :
         /\ IsPathSeparator(s[i])
         /\ \A j \in (i+1)..Len(s) : ~IsPathSeparator(s[j])
  ELSE 0

\* s with its trailing path separators stripped.
RECURSIVE StripTrailingSeparators(_)
StripTrailingSeparators(s) ==
  IF Len(s) > 0 /\ IsPathSeparator(s[Len(s)])
  THEN StripTrailingSeparators(SubSeq(s, 1, Len(s) - 1))
  ELSE s

\* A plausible slip: the directory part is kept.
BaseKeepsDirectory(path) == path

\* filepath.Base
Base(path) ==
  IF path = <<>> THEN <<".">>
  ELSE LET stripped == StripTrailingSeparators(path)
           last == SubSeq(stripped, LastSeparator(stripped) + 1, Len(stripped))
       IN  IF last = <<>> THEN <<"/">> ELSE last

\* filepath.Ext: the suffix from the final dot of the final path element.
Ext(path) ==
  LET from == LastSeparator(path) + 1
  IN  IF \E i \in from..Len(path) : path[i] = "."
      THEN LET dot == CHOOSE i \in from..Len(path) :
                        /\ path[i] = "."
                        /\ \A j \in (i+1)..Len(path) : path[j] # "."
           IN  SubSeq(path, dot, Len(path))
      ELSE <<>>

\* unicode.IsSpace on the characters the documents use.
IsSpace(c) == c \in {" ", "\n", "\t", "\r"}

\* strings.TrimSpace
RECURSIVE TrimSpace(_)
TrimSpace(s) ==
  IF s = <<>> THEN s
  ELSE IF IsSpace(s[1]) THEN TrimSpace(Tail(s))
  ELSE IF IsSpace(s[Len(s)]) THEN TrimSpace(SubSeq(s, 1, Len(s) - 1))
  ELSE s

\* ---------------------------------------------------------------- inputs
DotPdf == <<".","p","d","f">>
DotMp3 == <<".","m","p","3">>
inputFolderPrefix == <<"p","d","f","-","i","n","p","u","t","/">>
outputFolderPrefix == <<"m","p","3","-","o","u","t","p","u","t","/">>
GsScheme == <<"g","s",":","/","/">>

\* Object keys of the notifications: a folder, a file name, an extension.
Folders == { inputFolderPrefix,
             inputFolderPrefix \o <<"a","/">>,
             <<"P","D","F","-","i","n","p","u","t","/">>,
             <<"o","/">>,
             <<>> }
FileNames == { <<"r","e","p","o","r","t">>, <<"r",".","x">>, <<>> }
Extensions == { DotPdf, <<".","P","D","F">>, <<".","t","x","t">>, <<>> }
Keys == { f \o n \o x : f \in Folders, n \in FileNames, x \in Extensions }
Buckets == { <<"b","1">>, <<"b","2">> }

\* Values of the environment variables the handler reads ("" is unset).
ProjectNumbers == { "", "1234" }
Locations == { "", "us-central1" }
VoiceNames == { "", "en-GB-Wavenet-A" }
DefaultVoiceName == "en-US-Wavenet-D"

\* A page of a document: unreadable, or carrying its plain text.
PageKinds == { [readable |-> FALSE, text |-> <<>>],
               [readable |-> TRUE, text |-> <<" ", "\n">>],
               [readable |-> TRUE, text |-> <<"a">>] }
RECURSIVE PageSeqs(_)
PageSeqs(n) ==
  IF n = 0 THEN { <<>> }
  ELSE LET shorter == PageSeqs(n - 1)
       IN  shorter \cup { Append(s, k) : s \in { t \in shorter : Len(t) = n - 1 },
                                         k \in PageKinds }
\* Contents of a stored object: a file pdf.Open rejects, or a PDF of pages.
Corrupt == [valid |-> FALSE, pages |-> <<>>]
Docs == { Corrupt } \cup { [valid |-> TRUE, pages |-> s] : s \in PageSeqs(MaxPages) }
EmptyFile == [valid |-> FALSE, pages |-> <<>>]

\* Error messages the backend embeds in a failed operation.
RemoteMessages == { "quota exceeded", "invalid voice" }

\* ---------------------------------------------------------------- errors
\* A Go error value: the kind of failure (by the return site that built it),
\* which identifiers its message chain prints ("e.Name", "e.Bucket",
\* "filePath", "op.Name"), the backend message it carries, and what it wraps.
Nil == [kind |-> "nil", names |-> {}, msg |-> "", cause |-> "nil"]
Error(kind, names, msg, cause) ==
  [kind |-> kind, names |-> names, msg |-> msg, cause |-> cause]

\* ----------------------------------------------------------------- state
VARIABLES
  env,            \* os.Getenv: PROJECT_NUMBER, GCP_LOCATION, TTS_VOICE_NAME
  fs,             \* the local temp directory: file name -> contents
  pc,             \* where each invocation of the handler stands
  e,              \* StorageObjectData of the invocation
  ctxDone,        \* the invocation's context has been canceled
  outputGCSURI,   \* function.go:62
  ttsVoiceName,   \* function.go:73-77
  tempFile,       \* the file DownloadFileToTemp created, storage:37
  tempPDFPath,    \* function.go:85
  extractedText,  \* function.go:92
  req,            \* the SynthesizeLongAudioRequest built, tts.go:30-45
  op,             \* name of the operation the submission returned, tts.go:48
  pollState,      \* Submitting / Polling / Succeeded / Failed of tts.go:47-82
  notDone,        \* not-done answers the backend has given to the operation
  calls,          \* history: the collaborator calls made, with their outcome,
                  \* and the cancellation of the context
  ret             \* the error the handler returned

vars == << env, fs, pc, e, ctxDone, outputGCSURI, ttsVoiceName, tempFile,
           tempPDFPath, extractedText, req, op, pollState, notDone, calls, ret >>

NoEvent == [Bucket |-> <<>>, Name |-> <<>>]
NoPath == << <<>>, 0 >>
NoRequest == [Text |-> <<>>, OutputGcsUri |-> <<>>, Parent |-> <<>>, VoiceName |-> ""]
NoOperation == <<"operations", 0>>

Call(name, outcome, arg) == [op |-> name, out |-> outcome, arg |-> arg, msg |-> ""]
Called(p, c) == calls' = [calls EXCEPT ![p] = Append(@, c)]

\* The handler returns err; the deferred cleanup, if registered, runs next.
Return(p, err, deferred) ==
  /\ ret' = [ret EXCEPT ![p] = err]
  /\ pc' = [pc EXCEPT ![p] = IF deferred THEN "cleanup" ELSE "done"]

\* The instance after its init functions: the handler registered, the
\* environment set by the deployment, no temp file. Under Spec one invocation
\* slot receives an event; the other stays unused.
Init ==
  /\ env \in [PROJECT_NUMBER : ProjectNumbers, GCP_LOCATION : Locations,
              TTS_VOICE_NAME : VoiceNames]
  /\ fs = << >>
  /\ pc = [p \in Procs |-> IF p = 1 THEN "idle" ELSE "off"]
  /\ e = [p \in Procs |-> NoEvent]
  /\ ctxDone = [p \in Procs |-> FALSE]
  /\ outputGCSURI = [p \in Procs |-> <<>>]
  /\ ttsVoiceName = [p \in Procs |-> ""]
  /\ tempFile = [p \in Procs |-> NoPath]
  /\ tempPDFPath = [p \in Procs |-> NoPath]
  /\ extractedText = [p \in Procs |-> <<>>]
  /\ req = [p \in Procs |-> NoRequest]
  /\ op = [p \in Procs |-> NoOperation]
  /\ pollState = [p \in Procs |-> "none"]
  /\ notDone = [p \in Procs |-> 0]
  /\ calls = [p \in Procs |-> <<>>]
  /\ ret = [p \in Procs |-> Nil]

\* --------------------------------------------------------------- handler
\* function.go:29-35, 42: the framework hands over a finalization event for
\* an object of one of the buckets.
ReceiveFrom(p, buckets, keys) ==
  /\ pc[p] = "idle"
  /\ \E b \in buckets, k \in keys : e' = [e EXCEPT ![p] = [Bucket |-> b, Name |-> k]]
  /\ pc' = [pc EXCEPT ![p] = "filter"]
  /\ UNCHANGED << env, fs, ctxDone, outputGCSURI, ttsVoiceName, tempFile, tempPDFPath,
                  extractedText, req, op, pollState, notDone, calls, ret >>

Receive(p) == ReceiveFrom(p, Buckets, Keys)

\* The host cancels the invocation's context (deadline, shutdown).
Cancel(p) ==
  /\ pc[p] \notin {"idle", "off", "done"}
  /\ ~ctxDone[p]
  /\ ctxDone' = [ctxDone EXCEPT ![p] = TRUE]
  /\ Called(p, Call("Cancel", pc[p], <<>>))
  /\ UNCHANGED << env, fs, pc, e, outputGCSURI, ttsVoiceName, tempFile, tempPDFPath,
                  extractedText, req, op, pollState, notDone, ret >>

\* A plausible slip: the folder test is dropped.
IsInInputFolderAlways(name) == TRUE

\* function.go:49
IsInInputFolder(name) == HasPrefix(name, inputFolderPrefix)

\* function.go:45
IsPDF(name) == HasSuffix(ToLower(name), DotPdf)

\* function.go:59
baseFileName(name) == Base(name)

\* A plausible slip: the object name is lowered along with the suffix test.
outputAudioObjectNameLowered(name) ==
  outputFolderPrefix
    \o ToLower(TrimSuffix(Base(name), Ext(Base(name)))) \o DotMp3

\* function.go:61
outputAudioObjectName(name) ==
  outputFolderPrefix
    \o TrimSuffix(baseFileName(name), Ext(baseFileName(name))) \o DotMp3

\* function.go:62, fmt.Sprintf("gs://%s/%s", ...)
FormatGCSURI(bucket, object) == GsScheme \o bucket \o <<"/">> \o object

\* function.go:44-62: skip what is not a PDF of the input folder, else
\* derive the output location.
Filter(p) ==
  /\ pc[p] = "filter"
  /\ IF ~IsPDF(e[p].Name) \/ ~IsInInputFolder(e[p].Name)
     THEN /\ Return(p, Nil, FALSE)
          /\ UNCHANGED outputGCSURI
     ELSE /\ outputGCSURI' = [outputGCSURI EXCEPT
                ![p] = FormatGCSURI(e[p].Bucket, outputAudioObjectName(e[p].Name))]
          /\ pc' = [pc EXCEPT ![p] = "config"]
          /\ UNCHANGED ret
  /\ UNCHANGED << env, fs, e, ctxDone, ttsVoiceName, tempFile, tempPDFPath,
                  extractedText, req, op, pollState, notDone, calls >>

\* A plausible slip: the test fires only when both variables are unset.
ConfigMissingBoth(projectNumber, location) == projectNumber = "" /\ location = ""

\* function.go:68
ConfigMissing(projectNumber, location) == projectNumber = "" \/ location = ""

\* function.go:64-81
Configure(p) ==
  /\ pc[p] = "config"
  /\ IF ConfigMissing(env.PROJECT_NUMBER, env.GCP_LOCATION)
     THEN /\ Return(p, Error("ConfigurationError", {}, "", "nil"), FALSE)
          /\ UNCHANGED ttsVoiceName
     ELSE /\ ttsVoiceName' = [ttsVoiceName EXCEPT
                ![p] = IF env.TTS_VOICE_NAME = "" THEN DefaultVoiceName
                       ELSE env.TTS_VOICE_NAME]
          /\ pc' = [pc EXCEPT ![p] = "newreader"]
          /\ UNCHANGED ret
  /\ UNCHANGED << env, fs, e, ctxDone, outputGCSURI, tempFile, tempPDFPath,
                  extractedText, req, op, pollState, notDone, calls >>

\* ------------------------------------------------------ DownloadFileToTemp
\* The handler's wrapping of a download error, function.go:87.
DownloadError(p, cause) == Error("DownloadError", {"e.Name"}, "", cause)

\* A plausible slip: a failed open is tried again instead of returned.
NewReaderRetries(p) ==
  /\ pc[p] = "newreader"
  /\ \/ /\ ~ctxDone[p]
        /\ Called(p, Call("NewReader", "ok", e[p].Name))
        /\ pc' = [pc EXCEPT ![p] = "createtemp"]
     \/ /\ Called(p, Call("NewReader", "err", e[p].Name))
        /\ UNCHANGED pc
  /\ UNCHANGED << env, fs, e, ctxDone, outputGCSURI, ttsVoiceName, tempFile,
                  tempPDFPath, extractedText, req, op, pollState, notDone, ret >>

\* storage:29-35: open a reader on the object; a canceled context fails it.
NewReader(p) ==
  /\ pc[p] = "newreader"
  /\ \/ /\ ~ctxDone[p]
        /\ Called(p, Call("NewReader", "ok", e[p].Name))
        /\ pc' = [pc EXCEPT ![p] = "createtemp"]
        /\ UNCHANGED ret
     \/ /\ Called(p, Call("NewReader", "err", e[p].Name))
        /\ Return(p, DownloadError(p, "NewReader"), FALSE)
  /\ UNCHANGED << env, fs, e, ctxDone, outputGCSURI, ttsVoiceName, tempFile,
                  tempPDFPath, extractedText, req, op, pollState, notDone >>

\* A plausible slip: a fixed file name (os.Create) instead of a fresh one.
TempNamesFixed(objectName) == { << Base(objectName), 1 >> }

\* Names os.CreateTemp can give for the pattern base+"_*.tmp": the random
\* part is one the directory does not hold yet.
TempNames(objectName) ==
  { << Base(objectName), id >> : id \in 1..MaxTempIds } \ DOMAIN fs

\* storage:37-41
CreateTemp(p) ==
  /\ pc[p] = "createtemp"
  /\ \/ \E name \in TempNames(e[p].Name) :
          /\ fs' = [n \in DOMAIN fs \cup {name} |->
                      IF n = name THEN EmptyFile ELSE fs[n]]
          /\ tempFile' = [tempFile EXCEPT ![p] = name]
          /\ Called(p, Call("CreateTemp", "ok", name))
          /\ pc' = [pc EXCEPT ![p] = "copy"]
          /\ UNCHANGED ret
     \/ /\ Called(p, Call("CreateTemp", "err", NoPath))
        /\ Return(p, DownloadError(p, "CreateTemp"), FALSE)
        /\ UNCHANGED << fs, tempFile >>
  /\ UNCHANGED << env, e, ctxDone, outputGCSURI, ttsVoiceName, tempPDFPath,
                  extractedText, req, op, pollState, notDone >>

\* A plausible slip: the file is left in place.
OsRemoveNothing(files, name) == files

\* os.Remove: the directory without the file (storage:46, storage:54).
OsRemove(files, name) == [n \in DOMAIN files \ {name} |-> files[n]]

\* storage:43-62: copy the object into the file; a failed copy removes the
\* partial file, a complete one hands path and cleanup to the handler, which
\* defers the cleanup (function.go:85-89).
CopyFrom(p, docs) ==
  /\ pc[p] = "copy"
  /\ \/ \E doc \in docs :
          /\ fs' = [fs EXCEPT ![tempFile[p]] = doc]
          /\ tempPDFPath' = [tempPDFPath EXCEPT ![p] = tempFile[p]]
          /\ Called(p, Call("Copy", "ok", tempFile[p]))
          /\ pc' = [pc EXCEPT ![p] = "extract"]
          /\ UNCHANGED ret
     \/ /\ fs' = OsRemove(fs, tempFile[p])
        /\ calls' = [calls EXCEPT ![p] =
             @ \o << Call("Copy", "err", tempFile[p]),
                     Call("Remove", "ok", tempFile[p]) >>]
        /\ Return(p, DownloadError(p, "Copy"), FALSE)
        /\ UNCHANGED tempPDFPath
  /\ UNCHANGED << env, e, ctxDone, outputGCSURI, ttsVoiceName, tempFile,
                  extractedText, req, op, pollState, notDone >>

Copy(p) == CopyFrom(p, Docs)

\* storage:53-59, run by the defer of function.go:89 as the handler returns.
cleanupTempFile(p) ==
  /\ pc[p] = "cleanup"
  /\ fs' = OsRemove(fs, tempFile[p])
  /\ Called(p, Call("Remove",
                    IF tempFile[p] \in DOMAIN fs THEN "ok" ELSE "notexist",
                    tempFile[p]))
  /\ pc' = [pc EXCEPT ![p] = "done"]
  /\ UNCHANGED << env, e, ctxDone, outputGCSURI, ttsVoiceName, tempFile,
                  tempPDFPath, extractedText, req, op, pollState, notDone, ret >>

\* ------------------------------------------- ExtractTextFromPDFFilePath
\* pdf-to-text.go:19-35: the text of the readable pages, in page order.
RECURSIVE PlainText(_)
PlainText(pages) ==
  IF pages = <<>> THEN <<>>
  ELSE (IF Head(pages).readable THEN Head(pages).text ELSE <<>>)
         \o PlainText(Tail(pages))

\* A plausible slip: only the empty string counts as no text.
IsBlankEmptyOnly(text) == text = <<>>

\* function.go:97
IsBlank(text) == TrimSpace(text) = <<>>

\* function.go:91-101 with pdf-to-text.go:13-36.
Extract(p) ==
  /\ pc[p] = "extract"
  /\ IF tempPDFPath[p] \notin DOMAIN fs \/ ~fs[tempPDFPath[p]].valid
     THEN /\ Called(p, Call("Extract", "err", tempPDFPath[p]))
          /\ Return(p, Error("ExtractionError", {"e.Name", "filePath"}, "",
                             "pdf.Open"), TRUE)
          /\ UNCHANGED extractedText
     ELSE LET text == PlainText(fs[tempPDFPath[p]].pages)
          IN  /\ Called(p, Call("Extract", "ok", tempPDFPath[p]))
              /\ extractedText' = [extractedText EXCEPT ![p] = text]
              /\ IF IsBlank(text)
                 THEN Return(p, Nil, TRUE)
                 ELSE /\ pc' = [pc EXCEPT ![p] = "synthesize"]
                      /\ UNCHANGED ret
  /\ UNCHANGED << env, fs, e, ctxDone, outputGCSURI, ttsVoiceName, tempFile,
                  tempPDFPath, req, op, pollState, notDone >>

\* ---------------------------------------------------- SynthesizeLongAudio
\* tts.go:44, fmt.Sprintf("projects/%s/locations/%s", ...)
FormatParent(projectNumber, location) ==
  << "projects", projectNumber, "locations", location >>

\* function.go:104 and tts.go:29-47: the call builds the request.
SynthesizeLongAudio(p) ==
  /\ pc[p] = "synthesize"
  /\ req' = [req EXCEPT ![p] =
       [Text |-> extractedText[p],
        OutputGcsUri |-> outputGCSURI[p],
        Parent |-> FormatParent(env.PROJECT_NUMBER, env.GCP_LOCATION),
        VoiceName |-> ttsVoiceName[p]]]
  /\ pollState' = [pollState EXCEPT ![p] = "Submitting"]
  /\ pc' = [pc EXCEPT ![p] = "submit"]
  /\ UNCHANGED << env, fs, e, ctxDone, outputGCSURI, ttsVoiceName, tempFile,
                  tempPDFPath, extractedText, op, notDone, calls, ret >>

\* A plausible slip: the synthesis error is logged and dropped.
SynthesisErrorSwallowed(err) == Nil

\* The handler's wrapping of what SynthesizeLongAudio returned, function.go:106.
SynthesisError(err) ==
  Error(err.kind, err.names \cup {"e.Name"}, err.msg, err.cause)

\* The name the backend gives a new operation: one it has not given yet.
NewOperation == << "operations", Cardinality({ q \in Procs : op[q] # NoOperation }) + 1 >>

\* A plausible slip of the other kind: a submission is held back while
\* another invocation has a job running for the same output location.
SubmitDeduplicated(p) ==
  /\ pc[p] = "submit"
  /\ \/ /\ ~ctxDone[p]
        /\ \A q \in Procs \ {p} :
             ~(pollState[q] = "Polling" /\ req[q].OutputGcsUri = req[p].OutputGcsUri)
        /\ op' = [op EXCEPT ![p] = NewOperation]
        /\ Called(p, Call("Submit", "ok", req[p].OutputGcsUri))
        /\ pollState' = [pollState EXCEPT ![p] = "Polling"]
        /\ pc' = [pc EXCEPT ![p] = "fetch"]
        /\ UNCHANGED ret
     \/ /\ Called(p, Call("Submit", "err", req[p].OutputGcsUri))
        /\ pollState' = [pollState EXCEPT ![p] = "Failed"]
        /\ Return(p, SynthesisError(Error("SubmissionError", {}, "",
                       IF ctxDone[p] THEN "context canceled" ELSE "rpc")), TRUE)
        /\ UNCHANGED op
  /\ UNCHANGED << env, fs, e, ctxDone, outputGCSURI, ttsVoiceName, tempFile,
                  tempPDFPath, extractedText, req, notDone >>

\* A plausible slip: the submission error is logged and the loop entered.
SubmitIgnoresError(p) ==
  /\ pc[p] = "submit"
  /\ \/ /\ ~ctxDone[p]
        /\ op' = [op EXCEPT ![p] = NewOperation]
        /\ Called(p, Call("Submit", "ok", req[p].OutputGcsUri))
     \/ /\ Called(p, Call("Submit", "err", req[p].OutputGcsUri))
        /\ UNCHANGED op
  /\ pollState' = [pollState EXCEPT ![p] = "Polling"]
  /\ pc' = [pc EXCEPT ![p] = "fetch"]
  /\ UNCHANGED << env, fs, e, ctxDone, outputGCSURI, ttsVoiceName, tempFile,
                  tempPDFPath, extractedText, req, notDone, ret >>

\* tts.go:48-53: submit the request; a canceled context fails the call.
Submit(p) ==
  /\ pc[p] = "submit"
  /\ \/ /\ ~ctxDone[p]
        /\ op' = [op EXCEPT ![p] = NewOperation]
        /\ Called(p, Call("Submit", "ok", req[p].OutputGcsUri))
        /\ pollState' = [pollState EXCEPT ![p] = "Polling"]
        /\ pc' = [pc EXCEPT ![p] = "fetch"]
        /\ UNCHANGED ret
     \/ /\ Called(p, Call("Submit", "err", req[p].OutputGcsUri))
        /\ pollState' = [pollState EXCEPT ![p] = "Failed"]
        /\ Return(p, SynthesisError(Error("SubmissionError", {}, "",
                       IF ctxDone[p] THEN "context canceled" ELSE "rpc")), TRUE)
        /\ UNCHANGED op
  /\ UNCHANGED << env, fs, e, ctxDone, outputGCSURI, ttsVoiceName, tempFile,
                  tempPDFPath, extractedText, req, notDone >>

\* What GetOperation can answer: the call fails (rpcErr), or it returns the
\* operation: Done or not, with an embedded error message ("" is none) and
\* metadata that is absent, decodes, or does not decode.
Metadatas == { "absent", "valid", "undecodable" }
Answers ==
  { [rpcErr |-> "unavailable", Done |-> FALSE, Error |-> "", Metadata |-> "absent"] }
  \cup { [rpcErr |-> "", Done |-> FALSE, Error |-> "", Metadata |-> m] :
           m \in {"absent", "valid"} }
  \cup { [rpcErr |-> "", Done |-> TRUE, Error |-> msg, Metadata |-> m] :
           msg \in RemoteMessages \cup {""}, m \in Metadatas }
Canceled == [rpcErr |-> "context canceled", Done |-> FALSE, Error |-> "",
             Metadata |-> "absent"]

\* History label of an answer.
Label(a) ==
  IF a.rpcErr # "" THEN "err"
  ELSE IF ~a.Done THEN "notdone"
  ELSE IF a.Error # "" THEN "done_err"
  ELSE "done_" \o a.Metadata

\* A plausible slip: metadata that does not decode fails the operation.
PollOutcomeStrictMetadata(a) ==
  IF a.rpcErr # ""
  THEN [state |-> "Failed", err |-> Error("StatusFetchError", {"op.Name"}, "", a.rpcErr)]
  ELSE IF a.Done
  THEN IF a.Error # ""
       THEN [state |-> "Failed",
             err |-> Error("RemoteSynthesisError", {"op.Name"}, a.Error, "nil")]
       ELSE IF a.Metadata = "undecodable"
       THEN [state |-> "Failed", err |-> Error("MetadataError", {"op.Name"}, "", "nil")]
       ELSE [state |-> "Succeeded", err |-> Nil]
  ELSE [state |-> "Polling", err |-> Nil]

\* A plausible slip: the embedded error does not end the loop.
PollOutcomeIgnoresError(a) ==
  IF a.rpcErr # ""
  THEN [state |-> "Failed", err |-> Error("StatusFetchError", {"op.Name"}, "", a.rpcErr)]
  ELSE IF a.Done /\ a.Error = ""
  THEN [state |-> "Succeeded", err |-> Nil]
  ELSE [state |-> "Polling", err |-> Nil]

\* A plausible slip: a failed status fetch is retried after the sleep.
PollOutcomeRetriesFetch(a) ==
  IF a.rpcErr # ""
  THEN [state |-> "Polling", err |-> Nil]
  ELSE IF a.Done
  THEN IF a.Error # ""
       THEN [state |-> "Failed",
             err |-> Error("RemoteSynthesisError", {"op.Name"}, a.Error, "nil")]
       ELSE [state |-> "Succeeded", err |-> Nil]
  ELSE [state |-> "Polling", err |-> Nil]

\* A plausible slip: the embedded error's message is not put in the error.
PollOutcomeDropsMessage(a) ==
  IF a.rpcErr # ""
  THEN [state |-> "Failed", err |-> Error("StatusFetchError", {"op.Name"}, "", a.rpcErr)]
  ELSE IF a.Done
  THEN IF a.Error # ""
       THEN [state |-> "Failed",
             err |-> Error("RemoteSynthesisError", {"op.Name"}, "", "nil")]
       ELSE [state |-> "Succeeded", err |-> Nil]
  ELSE [state |-> "Polling", err |-> Nil]

\* tts.go:57-75: what one answer makes of the poller, and the error returned.
PollOutcome(a) ==
  IF a.rpcErr # ""
  THEN [state |-> "Failed", err |-> Error("StatusFetchError", {"op.Name"}, "", a.rpcErr)]
  ELSE IF a.Done
  THEN IF a.Error # ""
       THEN [state |-> "Failed",
             err |-> Error("RemoteSynthesisError", {"op.Name"}, a.Error, "nil")]
       ELSE [state |-> "Succeeded", err |-> Nil]
  ELSE [state |-> "Polling", err |-> Nil]

\* tts.go:55-77 and function.go:104-110: one status fetch. A canceled
\* context fails the call; the backend stays not-done at most MaxNotDone times.
GetOperation(p) ==
  /\ pc[p] = "fetch"
  /\ \E a \in IF ctxDone[p] THEN {Canceled} ELSE Answers :
       /\ (a.rpcErr = "" /\ ~a.Done) => notDone[p] < MaxNotDone
       /\ Called(p, [Call("GetOperation", Label(a), op[p]) EXCEPT !.msg = a.Error])
       /\ pollState' = [pollState EXCEPT ![p] = PollOutcome(a).state]
       /\ IF PollOutcome(a).state = "Polling"
          THEN /\ pc' = [pc EXCEPT ![p] = "sleep"]
               /\ notDone' = [notDone EXCEPT ![p] = @ + 1]
               /\ UNCHANGED ret
          ELSE /\ Return(p, IF PollOutcome(a).err = Nil THEN Nil
                            ELSE SynthesisError(PollOutcome(a).err), TRUE)
               /\ UNCHANGED notDone
  /\ UNCHANGED << env, fs, e, ctxDone, outputGCSURI, ttsVoiceName, tempFile,
                  tempPDFPath, extractedText, req, op >>

\* A plausible slip: the loop gives up after a fixed number of polls.
SleepGivesUp(p) ==
  /\ pc[p] = "sleep"
  /\ Called(p, Call("Sleep", "ok", <<>>))
  /\ IF notDone[p] >= 1
     THEN /\ pollState' = [pollState EXCEPT ![p] = "Failed"]
          /\ Return(p, SynthesisError(Error("TimeoutError", {"op.Name"}, "", "nil")), TRUE)
     ELSE /\ pc' = [pc EXCEPT ![p] = "fetch"]
          /\ UNCHANGED << pollState, ret >>
  /\ UNCHANGED << env, fs, e, ctxDone, outputGCSURI, ttsVoiceName, tempFile,
                  tempPDFPath, extractedText, req, op, notDone >>

\* A plausible slip: the submission sits inside the loop.
SleepResubmits(p) ==
  /\ pc[p] = "sleep"
  /\ Called(p, Call("Sleep", "ok", <<>>))
  /\ pc' = [pc EXCEPT ![p] = "submit"]
  /\ UNCHANGED << env, fs, e, ctxDone, outputGCSURI, ttsVoiceName, tempFile,
                  tempPDFPath, extractedText, req, op, pollState, notDone, ret >>

\* tts.go:77-78: time.Sleep runs its full interval, whatever the context.
Sleep(p) ==
  /\ pc[p] = "sleep"
  /\ Called(p, Call("Sleep", "ok", <<>>))
  /\ pc' = [pc EXCEPT ![p] = "fetch"]
  /\ UNCHANGED << env, fs, e, ctxDone, outputGCSURI, ttsVoiceName, tempFile,
                  tempPDFPath, extractedText, req, op, pollState, notDone, ret >>

\* ------------------------------------------------------------ specification
Next ==
  \E p \in Procs :
    \/ Receive(p)
    \/ Cancel(p)
    \/ Filter(p)
    \/ Configure(p)
    \/ NewReader(p)
    \/ CreateTemp(p)
    \/ Copy(p)
    \/ Extract(p)
    \/ SynthesizeLongAudio(p)
    \/ Submit(p)
    \/ GetOperation(p)
    \/ Sleep(p)
    \/ cleanupTempFile(p)

Spec == Init /\ [][Next]_vars

\* The goroutine of an invocation keeps running: a step of the handler that
\* stays possible is taken (the calls return, time.Sleep ends).
Step(p) ==
  \/ Filter(p) \/ Configure(p) \/ NewReader(p) \/ CreateTemp(p) \/ Copy(p)
  \/ Extract(p) \/ SynthesizeLongAudio(p) \/ Submit(p) \/ GetOperation(p)
  \/ Sleep(p) \/ cleanupTempFile(p)
FairSpec == Spec /\ \A p \in Procs : WF_vars(Step(p))

\* Two invocations of one instance running concurrently, with the environment
\* complete. The events are for two objects of one bucket that share their
\* file name; the objects are a corrupt file, a PDF without text and a PDF
\* with text.
ConcBuckets == { <<"b","1">> }
ConcKeys == { inputFolderPrefix \o <<"r","e","p","o","r","t">> \o DotPdf,
              inputFolderPrefix \o <<"a","/">> \o <<"r","e","p","o","r","t">> \o DotPdf }
ConcDocs == { Corrupt,
              [valid |-> TRUE, pages |-> << [readable |-> TRUE, text |-> <<" ", "\n">>] >>],
              [valid |-> TRUE, pages |-> << [readable |-> TRUE, text |-> <<"a">>] >>] }

InitConc ==
  /\ env = [PROJECT_NUMBER |-> "1234", GCP_LOCATION |-> "us-central1",
            TTS_VOICE_NAME |-> ""]
  /\ fs = << >>
  /\ pc = [p \in Procs |-> "idle"]
  /\ e = [p \in Procs |-> NoEvent]
  /\ ctxDone = [p \in Procs |-> FALSE]
  /\ outputGCSURI = [p \in Procs |-> <<>>]
  /\ ttsVoiceName = [p \in Procs |-> ""]
  /\ tempFile = [p \in Procs |-> NoPath]
  /\ tempPDFPath = [p \in Procs |-> NoPath]
  /\ extractedText = [p \in Procs |-> <<>>]
  /\ req = [p \in Procs |-> NoRequest]
  /\ op = [p \in Procs |-> NoOperation]
  /\ pollState = [p \in Procs |-> "none"]
  /\ notDone = [p \in Procs |-> 0]
  /\ calls = [p \in Procs |-> <<>>]
  /\ ret = [p \in Procs |-> Nil]

NextConc ==
  \E p \in Procs :
    \/ ReceiveFrom(p, ConcBuckets, ConcKeys)
    \/ Filter(p)
    \/ Configure(p)
    \/ NewReader(p)
    \/ CreateTemp(p)
    \/ CopyFrom(p, ConcDocs)
    \/ Extract(p)
    \/ SynthesizeLongAudio(p)
    \/ Submit(p)
    \/ GetOperation(p)
    \/ Sleep(p)
    \/ cleanupTempFile(p)

SpecConc == InitConc /\ [][NextConc]_vars

\* The filter and the derivation alone, on two notifications: keys that
\* differ in folder, in the case of the file name and in the case of the
\* extension, in either bucket.
DeriveFolders == { inputFolderPrefix,
                   inputFolderPrefix \o <<"a","/">>,
                   inputFolderPrefix \o <<"b","/">>,
                   <<"o","/">> }
DeriveNames == { <<"r","e","p","o","r","t">>, <<"R","e","p","o","r","t">> }
DeriveExtensions == { DotPdf, <<".","P","D","F">> }
DeriveKeys ==
  { f \o n \o x : f \in DeriveFolders, n \in DeriveNames, x \in DeriveExtensions }

NextDerive ==
  \E p \in Procs :
    \/ ReceiveFrom(p, Buckets, DeriveKeys)
    \/ Filter(p)

SpecDerive == InitConc /\ [][NextDerive]_vars

\* ================================================================== claims
\* History helpers: the calls of invocation p, by collaborator operation.
IsStageCall(c) == c.op # "Cancel"
IsPollCall(c) == c.op \in {"GetOperation", "Sleep"}
StageCalls(p) == SelectSeq(calls[p], IsStageCall)
PollCalls(p) == SelectSeq(calls[p], IsPollCall)
Count(p, name) == Cardinality({ i \in 1..Len(calls[p]) : calls[p][i].op = name })
Made(p, name, outcome) ==
  \E i \in 1..Len(calls[p]) : calls[p][i].op = name /\ calls[p][i].out = outcome
Invoked(p) == pc[p] \notin {"idle", "off"}
Returned(p) == pc[p] = "done"

\* The key filter as the specification words it.
EndsWithPdfIgnoringCase(k) ==
  /\ Len(k) >= 4
  /\ \A i \in 1..4 : ToLowerChar(k[Len(k) - 4 + i]) = DotPdf[i]
BeginsWithInputFolder(k) ==
  /\ Len(k) >= Len(inputFolderPrefix)
  /\ \A i \in 1..Len(inputFolderPrefix) : k[i] = inputFolderPrefix[i]
Accepted(k) == EndsWithPdfIgnoringCase(k) /\ BeginsWithInputFolder(k)

\* C1: a notification whose key does not end with ".pdf" (ignoring case) or
\* does not begin with "pdf-input/" is a no-op success: the handler returns
\* nil and makes no download, temp file, extraction or synthesis call,
\* whatever the environment holds.
C1_RejectedIsNoOpSuccess ==
  \A p \in Procs :
    (Invoked(p) /\ ~Accepted(e[p].Name)) =>
      /\ pc[p] \in {"filter", "done"}
      /\ ret[p] = Nil
      /\ StageCalls(p) = <<>>
      /\ tempFile[p] = NoPath
      /\ pollState[p] = "none"

C1_Witness ==
  \E p \in Procs :
    /\ Returned(p)
    /\ e[p].Name = <<"o","/">> \o <<"r","e","p","o","r","t">> \o DotPdf
    /\ env.PROJECT_NUMBER = ""
    /\ ret[p] = Nil
    /\ StageCalls(p) = <<>>

\* The output key as the specification words it: the characters after the
\* last "/" of the key, less the four of the document extension, between
\* "mp3-output/" and ".mp3".
LastSlash(k) ==
  LET at == { i \in 1..Len(k) : k[i] = "/" }
  IN  IF at = {} THEN 0 ELSE CHOOSE i \in at : \A j \in at : j <= i
ExpectedOutputKey(k) ==
  outputFolderPrefix \o SubSeq(k, LastSlash(k) + 1, Len(k) - 4) \o DotMp3
ExpectedOutputURI(b, k) == GsScheme \o b \o <<"/">> \o ExpectedOutputKey(k)

\* C2: for an accepted notification the output location handed to the
\* synthesizer is gs://<bucket>/mp3-output/<base name without extension>.mp3,
\* in the notification's own bucket.
C2_OutputKeyDerivation ==
  \A p \in Procs :
    /\ (Invoked(p) /\ Accepted(e[p].Name) /\ pc[p] # "filter") =>
         outputGCSURI[p] = ExpectedOutputURI(e[p].Bucket, e[p].Name)
    /\ \A i \in 1..Len(calls[p]) :
         calls[p][i].op = "Submit" =>
           /\ Accepted(e[p].Name)
           /\ calls[p][i].arg = ExpectedOutputURI(e[p].Bucket, e[p].Name)

C2_Witness ==
  \E p \in Procs :
    /\ e[p].Name = inputFolderPrefix \o <<"r","e","p","o","r","t">> \o DotPdf
    /\ e[p].Bucket = <<"b","1">>
    /\ Made(p, "Submit", "ok")
    /\ req[p].OutputGcsUri =
         <<"g","s",":","/","/","b","1","/">> \o outputFolderPrefix
           \o <<"r","e","p","o","r","t">> \o DotMp3

\* Text with no character other than white space (the empty text included).
WhitespaceOnly(text) == \A i \in 1..Len(text) : text[i] \in {" ", "\n", "\t", "\r"}

\* C3: when extraction of a downloaded document yields empty or
\* whitespace-only text the handler returns success and the synthesizer is
\* never invoked: no submission, no status fetch, no sleep.
C3_BlankTextSkipsSynthesis ==
  \A p \in Procs :
    (Made(p, "Extract", "ok") /\ WhitespaceOnly(extractedText[p])) =>
      /\ pc[p] \in {"cleanup", "done"}
      /\ ret[p] = Nil
      /\ Count(p, "Submit") = 0
      /\ Count(p, "GetOperation") = 0
      /\ Count(p, "Sleep") = 0
      /\ pollState[p] = "none"
      /\ req[p] = NoRequest

C3_Witness ==
  \E p \in Procs :
    /\ Returned(p)
    /\ Made(p, "Extract", "ok")
    /\ extractedText[p] = <<" ", "\n">>
    /\ ret[p] = Nil
    /\ Count(p, "Submit") = 0

Terminal == {"Succeeded", "Failed"}
\* The poller transitions of the state machine, stuttering aside.
PollerMoves == { <<"none", "Submitting">>, <<"Submitting", "Polling">>,
                 <<"Submitting", "Failed">>, <<"Polling", "Succeeded">>,
                 <<"Polling", "Failed">> }
\* Invocation p has seen a submission error, a status-fetch error, or a done
\* operation.
TerminalObserved(p) ==
  \E i \in 1..Len(calls[p]) :
    \/ calls[p][i].op = "Submit" /\ calls[p][i].out = "err"
    \/ calls[p][i].op = "GetOperation" /\ calls[p][i].out # "notdone"

\* C5: the poller moves only along Submitting -> Polling -> {Succeeded |
\* Failed}; once a terminal condition has been observed it is in a terminal
\* state, and from a terminal state there is no further status fetch, no
\* further sleep and no change of state.
C5_PollerStateMachine ==
  /\ [](\A p \in Procs : TerminalObserved(p) <=> pollState[p] \in Terminal)
  /\ [][\A p \in Procs :
          /\ pollState'[p] # pollState[p] =>
               << pollState[p], pollState'[p] >> \in PollerMoves
          /\ pollState[p] \in Terminal =>
               /\ pollState'[p] = pollState[p]
               /\ Count(p, "GetOperation")' = Count(p, "GetOperation")
               /\ Count(p, "Sleep")' = Count(p, "Sleep")
               /\ Count(p, "Submit")' = Count(p, "Submit")]_vars

C5_Witness ==
  \E p \in Procs :
    /\ Returned(p)
    /\ pollState[p] = "Failed"
    /\ Count(p, "GetOperation") = 2
    /\ Count(p, "Sleep") = 1
    /\ Made(p, "GetOperation", "err")

DoneLabels == {"done_err", "done_absent", "done_valid", "done_undecodable"}
\* The status fetches and sleeps of p alternate, a fetch first.
Alternating(p) ==
  \A i \in 1..Len(PollCalls(p)) :
    PollCalls(p)[i].op = IF i % 2 = 1 THEN "GetOperation" ELSE "Sleep"
\* Not-done answers among the status fetches of p, counted from the history.
NotDoneSeen(p) ==
  Cardinality({ i \in 1..Len(calls[p]) :
                  calls[p][i].op = "GetOperation" /\ calls[p][i].out = "notdone" })

\* C6: when every status fetch succeeds and the backend answers not-done n
\* times and then done, the poller has made n sleeps and n+1 fetches,
\* alternating fetch, sleep, fetch; it returns a remote-synthesis error with
\* the embedded message when the final status carries an error, and success
\* otherwise.
C6_PollCounts ==
  \A p \in Procs :
    /\ Alternating(p)
    /\ LET polls == PollCalls(p)
           n == NotDoneSeen(p)
       IN  ( /\ Len(polls) > 0
             /\ polls[Len(polls)].out \in DoneLabels
             /\ ~Made(p, "GetOperation", "err") ) =>
               /\ Count(p, "GetOperation") = n + 1
               /\ Count(p, "Sleep") = n
               /\ \A i \in 1..(Len(polls) - 1) :
                    polls[i].op = "GetOperation" => polls[i].out = "notdone"
               /\ pc[p] \in {"cleanup", "done"}
               /\ IF polls[Len(polls)].out = "done_err"
                  THEN /\ pollState[p] = "Failed"
                       /\ ret[p].kind = "RemoteSynthesisError"
                       /\ ret[p].msg = polls[Len(polls)].msg
                       /\ ret[p].msg \in RemoteMessages
                  ELSE /\ pollState[p] = "Succeeded"
                       /\ ret[p] = Nil

C6_Witness ==
  \E p \in Procs :
    /\ Returned(p)
    /\ NotDoneSeen(p) = 2
    /\ Made(p, "GetOperation", "done_err")
    /\ Count(p, "Sleep") = 2
    /\ Count(p, "GetOperation") = 3
    /\ ret[p].kind = "RemoteSynthesisError"
    /\ ret[p].msg = "quota exceeded"

\* C7: a done operation without an embedded error is a success whether its
\* metadata is absent, decodes, or fails to decode.
C7_MetadataNeverFails ==
  \A p \in Procs :
    (\E m \in Metadatas : Made(p, "GetOperation", "done_" \o m)) =>
      /\ pollState[p] = "Succeeded"
      /\ ret[p] = Nil
      /\ pc[p] \in {"cleanup", "done"}

C7_Witness ==
  \E p \in Procs :
    /\ Returned(p)
    /\ Made(p, "GetOperation", "done_undecodable")
    /\ pollState[p] = "Succeeded"
    /\ ret[p] = Nil

\* C8: a context canceled during the sleep between two polls makes the
\* poller return a cancellation-kind error, distinct from a status-fetch and
\* from a remote-synthesis error.
C8_CancelDuringSleepIsCancellationError ==
  \A p \in Procs :
    (Made(p, "Cancel", "sleep") /\ pollState[p] \in Terminal) =>
      ret[p].kind = "CancellationError"

\* C9: an accepted notification with PROJECT_NUMBER or GCP_LOCATION unset
\* fails with a configuration error before any download, temp file,
\* extraction or synthesis call.
C9_MissingConfigFailsFirst ==
  \A p \in Procs :
    ( /\ Invoked(p) /\ pc[p] \notin {"filter", "config"}
      /\ Accepted(e[p].Name)
      /\ (env.PROJECT_NUMBER = "" \/ env.GCP_LOCATION = "") ) =>
        /\ Returned(p)
        /\ ret[p].kind = "ConfigurationError"
        /\ StageCalls(p) = <<>>
        /\ tempFile[p] = NoPath
        /\ pollState[p] = "none"

C9_Witness ==
  \E p \in Procs :
    /\ Returned(p)
    /\ Accepted(e[p].Name)
    /\ env.PROJECT_NUMBER = "1234" /\ env.GCP_LOCATION = ""
    /\ ret[p].kind = "ConfigurationError"
    /\ StageCalls(p) = <<>>

\* A stage of invocation p failed: the configuration is incomplete, a
\* collaborator call returned an error, or the operation ended with one.
StageFailed(p) ==
  \/ Accepted(e[p].Name) /\ (env.PROJECT_NUMBER = "" \/ env.GCP_LOCATION = "")
  \/ \E i \in 1..Len(calls[p]) :
       /\ calls[p][i].op \in {"NewReader", "CreateTemp", "Copy", "Extract",
                              "Submit", "GetOperation"}
       /\ calls[p][i].out \in {"err", "done_err"}

\* C10: the handler returns success exactly when the key was rejected, the
\* extracted text was blank, or the synthesis operation succeeded; every
\* stage failure makes it return an error.
C10_SuccessIffSkipOrSucceeded ==
  \A p \in Procs :
    Returned(p) =>
      /\ ret[p] = Nil <=>
           \/ ~Accepted(e[p].Name)
           \/ Made(p, "Extract", "ok") /\ WhitespaceOnly(extractedText[p])
           \/ pollState[p] = "Succeeded"
      /\ StageFailed(p) => ret[p] # Nil

C10_Witness ==
  \E p \in Procs :
    /\ Returned(p)
    /\ ret[p] = Nil
    /\ pollState[p] = "Succeeded"
    /\ NotDoneSeen(p) = 1

\* An accepted key whose file name is nothing but the document extension.
EmptyBaseName(k) ==
  Accepted(k) /\ SubSeq(k, LastSlash(k) + 1, Len(k) - 4) = <<>>

\* C11: a key with the input prefix and the document suffix but an empty
\* base name ("pdf-input/.pdf") is rejected by the filter: the handler
\* returns success as a skip, derives no output key and starts no stage.
C11_EmptyBaseNameIsRejected ==
  \A p \in Procs :
    (Invoked(p) /\ EmptyBaseName(e[p].Name)) =>
      /\ pc[p] \in {"filter", "done"}
      /\ ret[p] = Nil
      /\ outputGCSURI[p] = <<>>
      /\ StageCalls(p) = <<>>

\* The pipeline stages of p in call order, the cleanup's removal aside.
IsPipelineCall(c) ==
  c.op \in {"NewReader", "CreateTemp", "Copy", "Extract", "Submit",
            "GetOperation", "Sleep"}
PipelineCalls(p) == SelectSeq(calls[p], IsPipelineCall)
StageRank(name) ==
  CASE name = "NewReader" -> 1
    [] name = "CreateTemp" -> 2
    [] name = "Copy" -> 3
    [] name = "Extract" -> 4
    [] name = "Submit" -> 5
    [] OTHER -> 6

\* C12: the stages run in the order filter, configuration check, download,
\* extract, synthesize; a stage runs only after the one before it succeeded,
\* nothing runs after a failed stage, and no stage runs twice.
C12_StagesInOrderOnce ==
  \A p \in Procs :
    LET s == PipelineCalls(p)
    IN  /\ s # <<>> =>
             /\ Accepted(e[p].Name)
             /\ env.PROJECT_NUMBER # "" /\ env.GCP_LOCATION # ""
             /\ s[1].op = "NewReader"
        /\ \A name \in {"NewReader", "CreateTemp", "Copy", "Extract", "Submit"} :
             Count(p, name) <= 1
        /\ \A i \in 1..Len(s) :
             /\ s[i].out = "err" => i = Len(s)
             /\ i > 1 =>
                  /\ StageRank(s[i-1].op) <= StageRank(s[i].op)
                  /\ StageRank(s[i].op) <= StageRank(s[i-1].op) + 1
                  /\ StageRank(s[i].op) <= 5 => s[i-1].out = "ok"
        /\ pc[p] \in {"idle", "off", "filter", "config"} => StageCalls(p) = <<>>

C12_Witness ==
  \E p \in Procs :
    /\ Returned(p)
    /\ Made(p, "Copy", "ok")
    /\ Made(p, "Extract", "err")
    /\ Count(p, "Submit") = 0
    /\ Count(p, "GetOperation") = 0
    /\ ret[p].kind = "ExtractionError"

\* Submissions of p the backend accepted.
Submitted(p) ==
  Cardinality({ i \in 1..Len(calls[p]) :
                  calls[p][i].op = "Submit" /\ calls[p][i].out = "ok" })

\* C13: one invocation submits at most one synthesis job, and every status
\* fetch it makes names the operation that submission returned.
C13_AtMostOneJob ==
  \A p \in Procs :
    /\ Count(p, "Submit") <= 1
    /\ Submitted(p) \in {0, 1}
    /\ Submitted(p) = 0 <=> op[p] = NoOperation
    /\ \A i \in 1..Len(calls[p]) :
         calls[p][i].op = "GetOperation" =>
           /\ Submitted(p) = 1
           /\ calls[p][i].arg = op[p]
           /\ op[p] # NoOperation
           /\ \E j \in 1..(i - 1) : calls[p][j].op = "Submit" /\ calls[p][j].out = "ok"

C13_Witness ==
  \E p \in Procs :
    /\ pollState[p] = "Polling"
    /\ Submitted(p) = 1
    /\ Count(p, "GetOperation") = 2
    /\ op[p] = <<"operations", 1>>

\* C14: a failed submission ends the poller in Failed with the submission
\* error; no status fetch and no sleep is made.
C14_SubmissionFailureEndsPoller ==
  \A p \in Procs :
    Made(p, "Submit", "err") =>
      /\ pollState[p] = "Failed"
      /\ ret[p].kind = "SubmissionError"
      /\ Count(p, "GetOperation") = 0
      /\ Count(p, "Sleep") = 0
      /\ pc[p] \in {"cleanup", "done"}

C14_Witness ==
  \E p \in Procs :
    /\ Returned(p)
    /\ Made(p, "Submit", "err")
    /\ ~ctxDone[p]
    /\ pollState[p] = "Failed"
    /\ ret[p].kind = "SubmissionError"

\* C15: a failed status fetch, the first or a later one, ends the poller in
\* Failed at once: it is not retried and no sleep or fetch follows it.
C15_FetchFailureEndsPoller ==
  \A p \in Procs :
    \A i \in 1..Len(calls[p]) :
      (calls[p][i].op = "GetOperation" /\ calls[p][i].out = "err") =>
        /\ \A j \in (i + 1)..Len(calls[p]) : ~IsPipelineCall(calls[p][j])
        /\ pollState[p] = "Failed"
        /\ ret[p].kind = "StatusFetchError"
        /\ pc[p] \in {"cleanup", "done"}

C15_Witness ==
  \E p \in Procs :
    /\ Returned(p)
    /\ NotDoneSeen(p) = 2
    /\ Made(p, "GetOperation", "err")
    /\ ~ctxDone[p]
    /\ Count(p, "GetOperation") = 3
    /\ pollState[p] = "Failed"

\* The last call invocation p has made, in the next state.
LastCallNext(p) == calls'[p][Len(calls'[p])]

\* C16: the loop has no timeout and no poll-count limit: while the fetches
\* succeed and answer not-done the poller stays in Polling, and it leaves
\* Polling only on a status fetch that fails or reports done; with the
\* goroutine scheduled fairly and a backend that ends the operation, the
\* poller reaches a terminal state.
C16_NoInternalLimit ==
  /\ [](\A p \in Procs :
          /\ pc[p] = "sleep" => (pollState[p] = "Polling" /\ ENABLED Sleep(p))
          /\ pc[p] = "fetch" => (pollState[p] = "Polling" /\ ENABLED GetOperation(p)))
  /\ [][\A p \in Procs :
          (pollState[p] = "Polling" /\ pollState'[p] # "Polling") =>
            /\ pc[p] = "fetch"
            /\ LastCallNext(p).op = "GetOperation"
            /\ LastCallNext(p).out # "notdone"]_vars
  /\ \A p \in Procs :
       (pollState[p] \in {"Submitting", "Polling"}) ~> (pollState[p] \in Terminal)

C16_Witness ==
  \E p \in Procs :
    /\ Returned(p)
    /\ NotDoneSeen(p) = MaxNotDone
    /\ Count(p, "Sleep") = MaxNotDone
    /\ pollState[p] = "Succeeded"

StageErrors == {"DownloadError", "ExtractionError", "SubmissionError",
                "StatusFetchError", "RemoteSynthesisError"}

\* C18: the error returned for a failed download, extraction or synthesis
\* stage wraps the stage error and names the notification by its object key
\* and by its bucket.
C18_ErrorNamesKeyAndBucket ==
  \A p \in Procs :
    (Returned(p) /\ ret[p].kind \in StageErrors) =>
      /\ "e.Name" \in ret[p].names
      /\ "e.Bucket" \in ret[p].names

\* The temp file of p is in use: created and not yet released by p.
InUse(p) ==
  pc[p] \in {"copy", "extract", "synthesize", "submit", "fetch", "sleep", "cleanup"}

\* C17: two concurrent invocations for the same object are not coordinated
\* or deduplicated: a submission is never held back by the other
\* invocation, each invocation gets an operation of its own, and both
\* target the same output location.
C17_NoDeduplication ==
  \A p \in Procs : \A q \in Procs \ {p} :
    /\ pc[p] = "submit" => ENABLED (Submit(p) /\ pollState'[p] = "Polling")
    /\ (Submitted(p) = 1 /\ Submitted(q) = 1) => op[p] # op[q]
    /\ (Submitted(p) = 1 /\ Submitted(q) = 1 /\ e[p] = e[q]) =>
         /\ req[p].OutputGcsUri = req[q].OutputGcsUri
         /\ req[p].OutputGcsUri = ExpectedOutputURI(e[p].Bucket, e[p].Name)

C17_Witness ==
  /\ e[1] = e[2]
  /\ pollState[1] = "Polling" /\ pollState[2] = "Polling"
  /\ op[1] # op[2]
  /\ req[1].OutputGcsUri = req[2].OutputGcsUri
  /\ req[1].OutputGcsUri =
       <<"g","s",":","/","/","b","1","/">> \o outputFolderPrefix
         \o <<"r","e","p","o","r","t">> \o DotMp3

\* The file name of an accepted key without its extension, case kept.
Stem(k) == SubSeq(k, LastSlash(k) + 1, Len(k) - 4)

\* C19: the output location depends only on the bucket and on the final path
\* component of the key less its last extension, case kept; two accepted
\* keys of one bucket get the same output key exactly when they agree on
\* that, so distinct keys can share an output key.
C19_SameStemSameOutput ==
  \A p \in Procs : \A q \in Procs :
    (pc[p] = "config" /\ pc[q] = "config") =>
      ( outputGCSURI[p] = outputGCSURI[q] <=>
          (e[p].Bucket = e[q].Bucket /\ Stem(e[p].Name) = Stem(e[q].Name)) )

C19_Witness ==
  /\ pc[1] = "config" /\ pc[2] = "config"
  /\ e[1].Name = inputFolderPrefix \o <<"a","/">> \o <<"r","e","p","o","r","t">> \o DotPdf
  /\ e[2].Name = inputFolderPrefix \o <<"b","/">> \o <<"r","e","p","o","r","t">>
                   \o <<".","P","D","F">>
  /\ e[1].Bucket = e[2].Bucket
  /\ outputGCSURI[1] = outputGCSURI[2]
  /\ outputGCSURI[1] =
       GsScheme \o e[1].Bucket \o <<"/">> \o outputFolderPrefix
         \o <<"r","e","p","o","r","t">> \o DotMp3

\* C20: the temp file is there whenever it is used: extraction runs on an
\* existing file, the file stays through submit and poll, and it is removed
\* only by its own invocation, after a failed copy or once the poller is
\* terminal or synthesis was never started; concurrent invocations have
\* different files.
C20_TempFileOutlivesUse ==
  /\ [](\A p \in Procs :
          /\ InUse(p) => tempFile[p] \in DOMAIN fs
          /\ (InUse(p) /\ pc[p] # "copy") => tempPDFPath[p] = tempFile[p]
          /\ \A q \in Procs \ {p} : (InUse(p) /\ InUse(q)) => tempFile[p] # tempFile[q]
          /\ \A i \in 1..Len(calls[p]) :
               calls[p][i].op \in {"Extract", "Remove"} => calls[p][i].arg = tempFile[p])
  /\ [][\A f \in DOMAIN fs \ DOMAIN fs' :
          \E p \in Procs :
            /\ tempFile[p] = f
            /\ pc'[p] = "done"
            /\ \/ pc[p] = "copy"
               \/ /\ pc[p] = "cleanup"
                  /\ pollState[p] \in Terminal \cup {"none"}
                  /\ pollState[p] = "none" =>
                       \/ Made(p, "Extract", "err")
                       \/ Made(p, "Extract", "ok") /\ WhitespaceOnly(extractedText[p])
            /\ \A q \in Procs \ {p} : tempFile[q] # f \/ ~InUse(q)]_vars

C20_Witness ==
  /\ e[1] = e[2]
  /\ Returned(1) /\ Count(1, "Remove") = 1 /\ pollState[1] = "Succeeded"
  /\ tempFile[1] \notin DOMAIN fs
  /\ pc[2] = "sleep" /\ tempFile[2] \in DOMAIN fs
  /\ tempFile[1] # tempFile[2]
====
